---- MODULE Spec2Model ----
(***************************************************************************)
(* A model of the notebook mnist_starter_pytorch.ipynb: one kernel session *)
(* in which the three code cells (the conversion cell, the dataset cell    *)
(* and the model-definition cell) are executed in any order, samples are   *)
(* read from the datasets, a LinearModel is constructed and its forward    *)
(* method is called.                                                       *)
(*                                                                         *)
(* Values are modelled at the level the notebook's own text fixes them:    *)
(*   - a pixel value is an exact rational (the float32 rounding of the     *)
(*     library is not modelled);                                           *)
(*   - a float tensor handed to a layer is its shape, a sequence of        *)
(*     dimensions;                                                         *)
(*   - an integer tensor is a record of its library, dtype and elements;   *)
(*   - the parameters of a dense layer are an opaque value drawn at        *)
(*     construction (the library's random initialisation).                 *)
(***************************************************************************)
EXTENDS Integers, Sequences, FiniteSets, TLC

VARIABLES
    ns,        \* the kernel's global namespace: bound name -> value
    executed,  \* the code cells executed so far in this session
    first,     \* the first code cell executed in this session, or "none"
    outputs,   \* the output area of the conversion cell, as the notebook shows it
    sample,    \* the last sample read from a dataset, with the pipeline's steps
    model,     \* the LinearModel instance constructed last, or NoModel
    call,      \* the last call of model.forward
    conv       \* the last conversions between the two tensor libraries

vars == <<ns, executed, first, outputs, sample, model, call, conv>>

----------------------------------------------------------------------------
(* Bounds of the model.                                                    *)

\* Layer parameters are drawn from 0..MaxParam at construction.
MaxParam == 1
\* Tensors a user hands to forward have at most MaxRank dimensions.
MaxRank == 2
\* Integer tensors converted between the libraries have at most MaxLen elements.
MaxLen == 2
\* ... each in -MaxElem..MaxElem
MaxElem == 2

----------------------------------------------------------------------------
(* Program constants.                                                      *)

\* "black (0) to white (255)": the raw intensity range of an MNIST pixel,
\* and the divisor of ToTensor.
PixelMax == 255
\* An MNIST image is 28x28, one channel.
ImageSide == 28
\* nn.Linear(784, 64)
Fc1In == 784
Fc1Out == 64
\* nn.Linear(64, 10)
Fc2In == 64
Fc2Out == 10
\* batch_size = 64
batch_size == 64

----------------------------------------------------------------------------
(* Exact rationals: [n |-> numerator, d |-> denominator], d > 0, reduced.  *)

RECURSIVE Gcd(_, _)
Gcd(a, b) == IF b = 0 THEN a ELSE Gcd(b, a % b)

Abs(a) == IF a < 0 THEN -a ELSE a

Rat(n, d) ==
    LET s == IF d < 0 THEN -1 ELSE 1
        g == Gcd(Abs(n), Abs(d))
    IN [n |-> (s * n) \div g, d |-> (s * d) \div g]

RSub(a, b) == Rat(a.n * b.d - b.n * a.d, a.d * b.d)
RDiv(a, b) == Rat(a.n * b.d, a.d * b.n)

\* The literal 0.5 of Normalize((0.5, ), (0.5, )).
Half == Rat(1, 2)

----------------------------------------------------------------------------
(* The transform pipeline of the dataset cell.                             *)

\* ToTensor as it would be with the scaling left out.
ToTensorUnscaled(img) ==
    [shape |-> <<1>> \o img.shape, value |-> Rat(img.value, 1)]

\* transforms.ToTensor(): an 8-bit image becomes a float tensor with one
\* leading channel dimension, each value divided by 255.
ToTensor(img) ==
    [shape |-> <<1>> \o img.shape, value |-> Rat(img.value, PixelMax)]

\* Normalize as it would be with the division by std left out.
NormalizeMeanOnly(mean, std, t) ==
    [shape |-> t.shape, value |-> RSub(t.value, mean)]

\* transforms.Normalize(mean, std): (x - mean) / std, shape kept.
Normalize(mean, std, t) ==
    [shape |-> t.shape, value |-> RDiv(RSub(t.value, mean), std)]

ApplyStep(step, x) ==
    IF step.op = "ToTensor" THEN ToTensor(x)
    ELSE Normalize(step.mean, step.std, x)

\* transforms.Compose(steps)(x): the steps applied in list order.
RECURSIVE Compose(_, _)
Compose(steps, x) ==
    IF steps = <<>> THEN x
    ELSE Compose(Tail(steps), ApplyStep(Head(steps), x))

\* The value bound to the name transform.
transform ==
    << [op |-> "ToTensor"],
       [op |-> "Normalize", mean |-> Half, std |-> Half] >>

\* A raw MNIST image: 28x28 intensities; one intensity stands for the image.
RawImage(p) == [shape |-> <<ImageSide, ImageSide>>, value |-> p]

\* datasets.MNIST(root, train, download, transform)
MNIST(root, train, download, tf) ==
    [root |-> root, train |-> train, download |-> download, transform |-> tf]

train_dataset == MNIST("./data", TRUE, TRUE, transform)

\* The test dataset as it would be with the Normalize step left out of it.
test_dataset_unnormalized ==
    MNIST("./data", FALSE, TRUE, <<[op |-> "ToTensor"]>>)

test_dataset == MNIST("./data", FALSE, TRUE, transform)

\* dataset[i]: the raw image passed through the dataset's transform.
GetItem(ds, p) == Compose(ds.transform, RawImage(p))

\* torch.utils.data.DataLoader(dataset, batch_size, shuffle)
DataLoader(ds, bs, shuffle) ==
    [dataset |-> ds, batch_size |-> bs, shuffle |-> shuffle]

train_loader == DataLoader(train_dataset, batch_size, TRUE)
test_loader == DataLoader(test_dataset, batch_size, FALSE)

\* The shape of a full batch of a loader: batch_size samples stacked.
BatchShape(loader) == <<loader.batch_size>> \o GetItem(loader.dataset, 0).shape

----------------------------------------------------------------------------
(* Integer tensors of the two libraries and their conversions.             *)

\* A dtype object of a library: torch.int32, tf.int32, numpy's int32.
DType(lib, name) == [lib |-> lib, name |-> name]

\* str(dtype), as print shows it.
Str(dt) ==
    IF dt.lib = "torch" THEN "torch." \o dt.name
    ELSE IF dt.lib = "tf" THEN "<dtype: '" \o dt.name \o "'>"
    ELSE dt.name

\* print(a, b, ...): one line, the arguments separated by one space.
RECURSIVE Print_line(_)
Print_line(args) ==
    IF Len(args) = 1 THEN Head(args)
    ELSE Head(args) \o " " \o Print_line(Tail(args))

\* The bytes one element of a dtype occupies in an array's buffer.
ItemSize(name) == IF name = "int32" THEN 4 ELSE 8

\* An integer as size bytes, little-endian, two's complement.
RECURSIVE EncodeInt(_, _)
EncodeInt(v, size) ==
    IF size = 0 THEN <<>>
    ELSE <<v % 256>> \o EncodeInt(v \div 256, size - 1)

\* The integer a little-endian two's complement byte string holds.
RECURSIVE DecodeInt(_)
DecodeInt(bytes) ==
    IF Len(bytes) = 1
    THEN (IF Head(bytes) >= 128 THEN Head(bytes) - 256 ELSE Head(bytes))
    ELSE Head(bytes) + 256 * DecodeInt(Tail(bytes))

\* The buffer of an array holding these elements with this item size.
RECURSIVE EncodeAll(_, _)
EncodeAll(list, size) ==
    IF list = <<>> THEN <<>>
    ELSE EncodeInt(Head(list), size) \o EncodeAll(Tail(list), size)

\* The elements a buffer holds, read with this item size.
RECURSIVE DecodeAll(_, _)
DecodeAll(buf, size) ==
    IF Len(buf) < size THEN <<>>
    ELSE <<DecodeInt(SubSeq(buf, 1, size))>>
         \o DecodeAll(SubSeq(buf, size + 1, Len(buf)), size)

\* A value stored as an element of this dtype (the cast of a constructor).
Cast(v, name) == DecodeInt(EncodeInt(v, ItemSize(name)))

CastAll(list, name) == [i \in DOMAIN list |-> Cast(list[i], name)]

\* torch.tensor as it would be with the dtype argument dropped: Python
\* integers become int64.
torch_tensor_default_dtype(list, dt) ==
    [lib |-> "torch", dtype |-> DType("torch", "int64"),
     data |-> CastAll(list, "int64")]

\* torch.tensor(list, dtype=dt)
torch_tensor(list, dt) ==
    [lib |-> "torch", dtype |-> dt, data |-> CastAll(list, dt.name)]

\* pytorch_tensor.numpy(): the array over the tensor's memory, with the
\* element type of the tensor.
torch_numpy(t) ==
    [lib |-> "numpy", dtype |-> DType("numpy", t.dtype.name),
     buf |-> EncodeAll(t.data, ItemSize(t.dtype.name))]

\* tf.convert_to_tensor(array): no dtype given, the array's dtype is kept.
tf_convert_to_tensor(a) ==
    [lib |-> "tf", dtype |-> DType("tf", a.dtype.name),
     data |-> DecodeAll(a.buf, ItemSize(a.dtype.name))]

\* tf.constant(list, dtype=dt)
tf_constant(list, dt) ==
    [lib |-> "tf", dtype |-> dt, data |-> CastAll(list, dt.name)]

\* tf_tensor.numpy()
tf_numpy(t) ==
    [lib |-> "numpy", dtype |-> DType("numpy", t.dtype.name),
     buf |-> EncodeAll(t.data, ItemSize(t.dtype.name))]

\* torch.tensor(array, dtype) as it would be reading the buffer as int64.
torch_tensor_of_array_wide(a, dt) ==
    [lib |-> "torch", dtype |-> dt,
     data |-> CastAll(DecodeAll(a.buf, ItemSize("int64")), dt.name)]

\* torch.tensor(array, dtype=dt): the elements of the array, cast to dt.
torch_tensor_of_array(a, dt) ==
    [lib |-> "torch", dtype |-> dt,
     data |-> CastAll(DecodeAll(a.buf, ItemSize(a.dtype.name)), dt.name)]

\* "Convert the NumPy array to a TensorFlow tensor"
PyTorchToTf(t) == tf_convert_to_tensor(torch_numpy(t))

\* "Convert the NumPy array back to a PyTorch tensor"
TfToPyTorch(t) == torch_tensor_of_array(tf_numpy(t), DType("torch", "int32"))

\* The literal [1, 2, 3] of the conversion cell.
Literal == <<1, 2, 3>>

\* The four lines the conversion cell prints.
ConversionCellOutput ==
    LET pt1 == torch_tensor(Literal, DType("torch", "int32"))
        tf1 == PyTorchToTf(pt1)
        tf2 == tf_constant(Literal, DType("tf", "int32"))
        pt2 == TfToPyTorch(tf2)
    IN << Print_line(<<Str(pt1.dtype)>>),
          Print_line(<<Str(tf1.dtype)>>),
          Print_line(<<"TensorFlow Tensor:", Str(tf2.dtype)>>),
          Print_line(<<"PyTorch Tensor:", Str(pt2.dtype)>> ) >>

\* The output the notebook file records for the conversion cell.
RecordedOutput ==
    << "torch.int32",
       "<dtype: 'int32'>",
       "TensorFlow Tensor: <dtype: 'int32'>",
       "PyTorch Tensor: torch.int32" >>

----------------------------------------------------------------------------
(* The model-definition cell.                                              *)

\* nn.Linear(in_features, out_features), its weight and bias drawn at
\* construction.
Linear(in_features, out_features, params) ==
    [in_features |-> in_features, out_features |-> out_features,
     params |-> params]

\* Whether the layer accepts a tensor of this shape: its last dimension is
\* the layer's in_features.
Accepts(layer, shape) ==
    /\ Len(shape) >= 1
    /\ shape[Len(shape)] = layer.in_features

\* layer(x) on an accepted shape: the last dimension becomes out_features.
LinearApply(layer, shape) ==
    [shape EXCEPT ![Len(shape)] = layer.out_features]

\* torch.relu(x): elementwise, the shape is kept.
relu(shape) == shape

\* __init__ as it would be with fc2 sized for the flattened image.
LinearModelInitWide(w1, w2) ==
    [fc1 |-> Linear(Fc1In, Fc1Out, w1), fc2 |-> Linear(Fc1In, Fc2Out, w2)]

\* LinearModel.__init__: the attributes of a new instance.
LinearModelInit(w1, w2) ==
    [fc1 |-> Linear(Fc1In, Fc1Out, w1), fc2 |-> Linear(Fc2In, Fc2Out, w2)]

\* The model-definition cell as it would be importing torch as well.
ModelCellImportsTorch == {"nn", "torch"}

\* The names the statement "import torch.nn as nn" binds.
ModelCellImports == {"nn"}

\* forward as it would be ending in "return x".
ForwardReturnsX(x) == [kind |-> "tensor", shape |-> x]

\* What forward hands back after its last statement: the body has no return.
ForwardReturn(x) == [kind |-> "None"]

\* The instance after forward has run its last statement: x is a local name.
ForwardSelf(self, x) == self

RECURSIVE Prod(_)
Prod(shape) == IF shape = <<>> THEN 1 ELSE Head(shape) * Prod(Tail(shape))

\* forward as it would be starting with x = x.view(-1, 784).
ForwardInputFlattened(x) ==
    IF Prod(x) % Fc1In = 0 THEN <<Prod(x) \div Fc1In, Fc1In>> ELSE x

\* The argument as forward hands it to fc1.
ForwardInput(x) == x

\* LinearModel.forward(self, x) called with the globals g of the notebook.
\* The record of the call: its outcome, the layers applied in order, the
\* value of the local x at the end, what the caller receives, and self.
forward(self, x, g) ==
    IF "torch" \notin g
    THEN [outcome |-> "NameError", applied |-> <<>>, local_x |-> x,
          ret |-> [kind |-> "raised"], self |-> self]
    ELSE IF ~Accepts(self.fc1, ForwardInput(x))
    THEN [outcome |-> "ShapeError", applied |-> <<>>, local_x |-> x,
          ret |-> [kind |-> "raised"], self |-> self]
    ELSE LET h == relu(LinearApply(self.fc1, ForwardInput(x)))
         IN IF ~Accepts(self.fc2, h)
            THEN [outcome |-> "ShapeError", applied |-> <<"fc1", "relu">>,
                  local_x |-> h, ret |-> [kind |-> "raised"], self |-> self]
            ELSE LET y == LinearApply(self.fc2, h)
                 IN [outcome |-> "ok", applied |-> <<"fc1", "relu", "fc2">>,
                     local_x |-> y, ret |-> ForwardReturn(y),
                     self |-> ForwardSelf(self, y)]

----------------------------------------------------------------------------
(* The kernel session.                                                     *)

EmptyNs == [n \in {} |-> 0]

\* A module object bound by an import statement.
Module(name) == [kind |-> "module", name |-> name]

\* The namespace g with the bindings b made (a rebinding replaces).
Bind(g, b) ==
    [n \in DOMAIN g \cup DOMAIN b |-> IF n \in DOMAIN b THEN b[n] ELSE g[n]]

NoModel == [n \in {} |-> 0]

NoSample ==
    [from |-> "none", raw |-> 0, scaled |-> ToTensor(RawImage(0)),
     item |-> ToTensor(RawImage(0))]

NoCall ==
    [src |-> "none", x |-> <<>>, outcome |-> "none", applied |-> <<>>,
     local_x |-> <<>>, ret |-> [kind |-> "none"]]

NoConv ==
    [orig |-> torch_tensor(<<>>, DType("torch", "int32")),
     cur |-> torch_tensor(<<>>, DType("torch", "int32")),
     last |-> "none"]

\* A fresh kernel on the notebook as saved: nothing is bound, and the
\* conversion cell shows the output the file records.
Init ==
    /\ ns = EmptyNs
    /\ executed = {}
    /\ first = "none"
    /\ outputs = RecordedOutput
    /\ sample = NoSample
    /\ model = NoModel
    /\ call = NoCall
    /\ conv = NoConv

Ran(cell) ==
    /\ executed' = executed \cup {cell}
    /\ first' = IF first = "none" THEN cell ELSE first

\* The conversion cell: three imports, the two conversions, four prints.
ConversionCell ==
    LET pt1 == torch_tensor(Literal, DType("torch", "int32"))
        tf1 == PyTorchToTf(pt1)
        tf2 == tf_constant(Literal, DType("tf", "int32"))
        arr == tf_numpy(tf2)
        pt2 == torch_tensor_of_array(arr, DType("torch", "int32"))
    IN /\ ns' = Bind(ns, ("tf" :> Module("tensorflow"))
                         @@ ("torch" :> Module("torch"))
                         @@ ("np" :> Module("numpy"))
                         @@ ("tf_tensor" :> tf2)
                         @@ ("numpy_array" :> arr)
                         @@ ("pytorch_tensor" :> pt2))
       /\ outputs' = ConversionCellOutput
       /\ conv' = [orig |-> pt1, cur |-> tf1, last |-> "torch->tf"]
       /\ Ran("conversion")
       /\ UNCHANGED <<sample, model, call>>

\* The dataset cell. The imports and the transform are bound first; the
\* download of datasets.MNIST may fail (the library raises), and then the
\* names after it are not bound by this run.
DatasetCell(download_ok) ==
    LET imports == ("torch" :> Module("torch"))
                   @@ ("nn" :> Module("torch.nn"))
                   @@ ("optim" :> Module("torch.optim"))
                   @@ ("datasets" :> Module("torchvision.datasets"))
                   @@ ("transforms" :> Module("torchvision.transforms"))
                   @@ ("transform" :> transform)
        data == ("train_dataset" :> train_dataset)
                @@ ("test_dataset" :> test_dataset)
                @@ ("batch_size" :> batch_size)
                @@ ("train_loader" :> train_loader)
                @@ ("test_loader" :> test_loader)
    IN /\ ns' = IF download_ok THEN Bind(Bind(ns, imports), data)
                ELSE Bind(ns, imports)
       /\ Ran("dataset")
       /\ UNCHANGED <<outputs, sample, model, call, conv>>

\* The model-definition cell: one import and the class statement.
ModelCell ==
    /\ ns' = Bind(ns, [n \in ModelCellImports |->
                          IF n = "nn" THEN Module("torch.nn") ELSE Module(n)]
                      @@ ("LinearModel" :> [kind |-> "class",
                                            name |-> "LinearModel"]))
    /\ Ran("model")
    /\ UNCHANGED <<outputs, sample, model, call, conv>>

\* train_dataset[i] or test_dataset[i]: an image whose intensity is p.
ReadSample(which, p) ==
    /\ which \in DOMAIN ns
    /\ sample' = [from |-> which, raw |-> p,
                  scaled |-> Compose(SubSeq(ns[which].transform, 1, 1),
                                     RawImage(p)),
                  item |-> GetItem(ns[which], p)]
    /\ UNCHANGED <<ns, executed, first, outputs, model, call, conv>>

\* LinearModel(): needs the class; nn.Linear draws the parameters.
Construct(w1, w2) ==
    /\ "LinearModel" \in DOMAIN ns
    /\ model' = LinearModelInit(w1, w2)
    /\ UNCHANGED <<ns, executed, first, outputs, sample, call, conv>>

\* The dimensions of the tensors a user builds by hand: an image side, the
\* flattened image, a batch.
Dims == {ImageSide, Fc1In, batch_size}

UserShapes == UNION {[1..n -> Dims] : n \in 0..MaxRank}

\* The tensors at hand for a call of forward: any tensor the user builds,
\* a sample of a dataset, a batch of a loader.
ForwardInputs ==
    {[src |-> "user", x |-> sh] : sh \in UserShapes}
    \cup {[src |-> "sample", x |-> GetItem(ns[d], 0).shape] :
            d \in {"train_dataset", "test_dataset"} \cap DOMAIN ns}
    \cup {[src |-> "batch", x |-> BatchShape(ns[l])] :
            l \in {"train_loader", "test_loader"} \cap DOMAIN ns}

\* model.forward(x)
Forward(in) ==
    /\ model # NoModel
    /\ LET r == forward(model, in.x, DOMAIN ns)
       IN /\ call' = [src |-> in.src, x |-> in.x, outcome |-> r.outcome,
                      applied |-> r.applied, local_x |-> r.local_x,
                      ret |-> r.ret]
          /\ model' = r.self
    /\ UNCHANGED <<ns, executed, first, outputs, sample, conv>>

\* A kernel restart: every name and object is gone, the outputs shown stay.
Restart ==
    /\ ns' = EmptyNs
    /\ executed' = {}
    /\ first' = "none"
    /\ sample' = NoSample
    /\ model' = NoModel
    /\ call' = NoCall
    /\ conv' = NoConv
    /\ UNCHANGED outputs

Next ==
    \/ ConversionCell
    \/ \E ok \in BOOLEAN : DatasetCell(ok)
    \/ ModelCell
    \/ \E w1, w2 \in 0..MaxParam : Construct(w1, w2)
    \/ \E in \in ForwardInputs : Forward(in)
    \/ Restart

Spec == Init /\ [][Next]_vars

----------------------------------------------------------------------------
(* The dataset cell and the samples read from its datasets.                *)

NextData ==
    \/ \E ok \in BOOLEAN : DatasetCell(ok)
    \/ \E which \in {"train_dataset", "test_dataset"}, p \in 0..PixelMax :
          ReadSample(which, p)
    \/ Restart

SpecData == Init /\ [][NextData]_vars

----------------------------------------------------------------------------
(* The two conversions as functions of any int32 tensor.                  *)

BoundedLists == UNION {[1..n -> (-MaxElem)..MaxElem] : n \in 0..MaxLen}

Int32Tensors ==
    {torch_tensor(l, DType("torch", "int32")) : l \in BoundedLists}
    \cup {tf_constant(l, DType("tf", "int32")) : l \in BoundedLists}

InitConv ==
    /\ ns = EmptyNs
    /\ executed = {}
    /\ first = "none"
    /\ outputs = RecordedOutput
    /\ sample = NoSample
    /\ model = NoModel
    /\ call = NoCall
    /\ conv \in {[orig |-> t, cur |-> t, last |-> "input"] : t \in Int32Tensors}

ConvertToTf ==
    /\ conv.cur.lib = "torch"
    /\ conv' = [conv EXCEPT !.cur = PyTorchToTf(@), !.last = "torch->tf"]
    /\ UNCHANGED <<ns, executed, first, outputs, sample, model, call>>

ConvertToPyTorch ==
    /\ conv.cur.lib = "tf"
    /\ conv' = [conv EXCEPT !.cur = TfToPyTorch(@), !.last = "tf->torch"]
    /\ UNCHANGED <<ns, executed, first, outputs, sample, model, call>>

NextConv == ConvertToTf \/ ConvertToPyTorch

SpecConv == InitConv /\ [][NextConv]_vars

----------------------------------------------------------------------------
(* The properties.                                                         *)

A_step == \E in \in ForwardInputs : Forward(in)

ImportCells == {"conversion", "dataset"}

LastDim(shape) == shape[Len(shape)]

\* C1: the transform pipeline (ToTensor, then Normalize with mean 0.5 and
\* std 0.5) maps every raw pixel p in 0..255 to (2p - 255)/255: pixel 0 to
\* -1, pixel 255 to 1, and every pixel into [-1, 1].
C1_TransformMapsToUnitRange ==
    sample.from # "none" =>
        LET v == sample.item.value
            p == sample.raw
        IN /\ v.d > 0
           /\ v.n * 255 = (2 * p - 255) * v.d
           /\ -v.d <= v.n /\ v.n <= v.d
           /\ (p = 0 => v = [n |-> -1, d |-> 1])
           /\ (p = 255 => v = [n |-> 1, d |-> 1])

C1_Witness ==
    /\ sample.from = "train_dataset"
    /\ sample.raw = 255
    /\ sample.item.value = [n |-> 1, d |-> 1]

\* C4: dividing a pixel by 255 (the ToTensor step, before Normalize) gives
\* a value in [0, 1]: black (0) gives 0, white (255) gives 1.
C4_ToTensorScalesToZeroOne ==
    sample.from # "none" =>
        LET t == sample.scaled.value
            p == sample.raw
        IN /\ t.d > 0
           /\ t.n * 255 = p * t.d
           /\ 0 <= t.n /\ t.n <= t.d
           /\ (p = 0 => t = [n |-> 0, d |-> 1])
           /\ (p = 255 => t = [n |-> 1, d |-> 1])

C4_Witness ==
    /\ sample.from = "test_dataset"
    /\ sample.raw = 255
    /\ sample.scaled.value = [n |-> 1, d |-> 1]
    /\ sample.item.value = [n |-> 1, d |-> 1]

\* C7: once the dataset cell has bound its names, both datasets hold the
\* same transform (ToTensor, then Normalize(0.5, 0.5)) and the same root
\* ./data, a sample of either dataset is its raw image through that same
\* function, so equal raw pixels give equal values; both loaders have batch
\* size 64 and differ only in their dataset and in shuffle (TRUE for the
\* training loader, FALSE for the test loader).
C7_SameTransformBothDatasets ==
    /\ "test_loader" \in DOMAIN ns =>
          /\ ns["train_dataset"].transform = ns["transform"]
          /\ ns["test_dataset"].transform = ns["transform"]
          /\ Len(ns["transform"]) = 2
          /\ ns["transform"][1].op = "ToTensor"
          /\ ns["transform"][2] =
                [op |-> "Normalize", mean |-> [n |-> 1, d |-> 2],
                 std |-> [n |-> 1, d |-> 2]]
          /\ ns["train_dataset"].root = "./data"
          /\ ns["test_dataset"].root = "./data"
          /\ ns["train_dataset"].train /\ ~ns["test_dataset"].train
          /\ \A p \in 0..255 :
                GetItem(ns["train_dataset"], p) = GetItem(ns["test_dataset"], p)
          /\ ns["train_loader"].batch_size = 64
          /\ ns["test_loader"].batch_size = 64
          /\ ns["train_loader"].dataset = ns["train_dataset"]
          /\ ns["test_loader"].dataset = ns["test_dataset"]
          /\ ns["train_loader"].shuffle /\ ~ns["test_loader"].shuffle
          /\ [ns["train_loader"] EXCEPT !.shuffle = FALSE,
                                        !.dataset = ns["test_dataset"]]
             = ns["test_loader"]
    /\ sample.from # "none" =>
          /\ sample.scaled.value.n * 255 = sample.raw * sample.scaled.value.d
          /\ sample.item.shape = <<1, 28, 28>>
          /\ sample.item.value.n * sample.scaled.value.d
                = (2 * sample.scaled.value.n - sample.scaled.value.d)
                  * sample.item.value.d

C7_Witness ==
    /\ "test_loader" \in DOMAIN ns
    /\ sample.from = "test_dataset"
    /\ sample.raw = 128
    /\ sample.item.value = [n |-> 1, d |-> 255]

C2_ForwardReturnsNothing ==
    [][(A_step /\ call'.outcome = "ok") =>
          /\ call'.ret = [kind |-> "None"]
          /\ model' = model
          /\ DOMAIN model' = {"fc1", "fc2"}]_vars

C2_Witness ==
    /\ call.outcome = "ok"
    /\ call.src = "user"
    /\ call.ret.kind = "None"
    /\ call.applied = <<"fc1", "relu", "fc2">>

\* C3: a constructed LinearModel holds exactly fc1 (784 -> 64) and fc2
\* (64 -> 10); forward applies fc1, relu, fc2 in that order, the output
\* width of fc1 is the input width of fc2, and for an input whose last
\* dimension is 784 the value of the last statement has last dimension 10.
C3_ShapesMatchDeclaredDimensions ==
    /\ model # NoModel =>
          /\ DOMAIN model = {"fc1", "fc2"}
          /\ model["fc1"].in_features = 784
          /\ model["fc1"].out_features = 64
          /\ model["fc2"].in_features = 64
          /\ model["fc2"].out_features = 10
          /\ model["fc1"].out_features = model["fc2"].in_features
    /\ call.outcome = "ok" =>
          /\ call.applied = <<"fc1", "relu", "fc2">>
          /\ Len(call.local_x) = Len(call.x)
          /\ LastDim(call.local_x) = 10
          /\ \A i \in 1..(Len(call.x) - 1) : call.local_x[i] = call.x[i]
    /\ (/\ call.outcome \notin {"none", "NameError"}
        /\ Len(call.x) >= 1
        /\ LastDim(call.x) = 784) =>
          /\ call.outcome = "ok"
          /\ LastDim(call.local_x) = 10

C3_Witness ==
    /\ call.outcome = "ok"
    /\ call.x = <<64, 784>>
    /\ call.local_x = <<64, 10>>

C9_UnflattenedInputRejected ==
    /\ [](/\ (call.src \in {"sample", "batch"} =>
                 /\ LastDim(call.x) = 28
                 /\ call.outcome = "ShapeError"
                 /\ call.applied = <<>>
                 /\ call.ret = [kind |-> "raised"])
          /\ (call.applied # <<>> =>
                 /\ Len(call.x) >= 1
                 /\ LastDim(call.x) = 784)
          /\ (call.outcome \notin {"none", "NameError"}
                 /\ ~(Len(call.x) >= 1 /\ LastDim(call.x) = 784)
                 => call.outcome = "ShapeError"))
    /\ [][(A_step /\ call'.outcome # "ok") => model' = model]_vars

C9_Witness ==
    /\ call.src = "batch"
    /\ call.x = <<64, 1, 28, 28>>
    /\ call.outcome = "ShapeError"
    /\ call.applied = <<>>

====
